---- MODULE Spec2Model ----
(***************************************************************************)
(* Combinatorial embedding of OGDF (CombinatorialEmbedding.cpp): the face  *)
(* registry and the right-face map that the embedding maintains over a     *)
(* graph given by its rotation system, under the structural operators.     *)
(***************************************************************************)
EXTENDS Integers, Sequences, FiniteSets, TLC

\* ------------------------------------------------------------------------
\* Bounds of the model and program constants
\* ------------------------------------------------------------------------
MaxNodes == 4
MaxEdges == 5
MaxFaceId == 4
\* operator calls are explored until MaxOps of them have returned normally
\* since the last init(G)
MaxOps == 2

MIN_FACE_TABLE_SIZE == 16

NodeIds == 1..MaxNodes
EdgeIds == 1..MaxEdges
AdjIds == 1..(2 * MaxEdges)
\* the identifier counter is followed up to MaxFaceCount where faces are
\* split and joined again and again (SpecGrow): past two doublings of the
\* table size
MaxFaceCount == 34
\* identifiers a face can carry: a full derivation issues at most one per
\* half-edge, createFaceElement is bounded by MaxFaceId or by MaxFaceCount
FaceIds == 0..(MaxFaceCount + 2 * MaxEdges)
\* the face arrays (FaceArrayBase objects) that callers construct
MaxArrays == 2
ArrayIds == 1..MaxArrays
\* the threads that register, unregister and rebind face arrays
MaxThreads == 2
Threads == 1..MaxThreads
\* the face arrays that these threads pass
MaxThreadArrays == 3
ThreadArrayIds == 1..MaxThreadArrays

\* nullptr for nodes, edges and adjacency entries; null face reference
nullptr == 0
nullFace == -1

\* ------------------------------------------------------------------------
\* Sequences (the intrusive lists of the graph)
\* ------------------------------------------------------------------------
Range(s) == {s[i] : i \in DOMAIN s}

IndexOf(s, x) == CHOOSE i \in DOMAIN s : s[i] = x

InsertAt(s, i, x) == SubSeq(s, 1, i - 1) \o <<x>> \o SubSeq(s, i, Len(s))

insertAfter(s, x, y) == InsertAt(s, IndexOf(s, y) + 1, x)

insertBefore(s, x, y) == InsertAt(s, IndexOf(s, y), x)

del(s, x) == SelectSeq(s, LAMBDA y : y # x)

Min(S) == CHOOSE x \in S : \A y \in S : x <= y

\* ------------------------------------------------------------------------
\* The rotation-system graph (class Graph): a record
\*   nodes      the existing nodes
\*   adjEntries per node, its list of adjacency entries (rotation)
\*   adjSrc     per edge, its source adjacency entry (nullptr: no such edge)
\*   adjTgt     per edge, its target adjacency entry
\* ------------------------------------------------------------------------
EmptyGraph ==
    [nodes |-> {},
     adjEntries |-> [v \in NodeIds |-> <<>>],
     adjSrc |-> [e \in EdgeIds |-> nullptr],
     adjTgt |-> [e \in EdgeIds |-> nullptr]]

Edges(g) == {e \in EdgeIds : g.adjSrc[e] # nullptr}

Adjs(g) == {g.adjSrc[e] : e \in Edges(g)} \cup {g.adjTgt[e] : e \in Edges(g)}

numberOfEdges(g) == Cardinality(Edges(g))

theNode(g, a) == CHOOSE v \in g.nodes : a \in Range(g.adjEntries[v])

theEdge(g, a) == CHOOSE e \in Edges(g) : g.adjSrc[e] = a \/ g.adjTgt[e] = a

twin(g, a) ==
    LET e == theEdge(g, a)
    IN  IF g.adjSrc[e] = a THEN g.adjTgt[e] ELSE g.adjSrc[e]

source(g, e) == theNode(g, g.adjSrc[e])

target(g, e) == theNode(g, g.adjTgt[e])

degree(g, v) == Len(g.adjEntries[v])

cyclicSucc(g, a) ==
    LET l == g.adjEntries[theNode(g, a)]
        i == IndexOf(l, a)
    IN  IF i = Len(l) THEN l[1] ELSE l[i + 1]

cyclicPred(g, a) ==
    LET l == g.adjEntries[theNode(g, a)]
        i == IndexOf(l, a)
    IN  IF i = 1 THEN l[Len(l)] ELSE l[i - 1]

faceCycleSucc(g, a) == cyclicPred(g, twin(g, a))

\* the half-edges a, succ(a), ... of the face cycle of a, once around
\* (the do { ... } while (adj != first) walks of the embedding)
RECURSIVE faceWalk(_, _, _, _)
faceWalk(g, a, first, acc) ==
    LET acc2 == Append(acc, a)
        nxt == faceCycleSucc(g, a)
    IN  IF nxt = first THEN acc2 ELSE faceWalk(g, nxt, first, acc2)

faceCycle(g, a) == faceWalk(g, a, a, <<>>)

\* all adjacency entries in the order "for v in nodes, for adj in v->adjEntries"
RECURSIVE allAdjFrom(_, _)
allAdjFrom(g, v) ==
    IF v > MaxNodes THEN <<>>
    ELSE (IF v \in g.nodes THEN g.adjEntries[v] ELSE <<>>) \o allAdjFrom(g, v + 1)

allAdj(g) == allAdjFrom(g, 1)

\* fresh objects: the smallest unused identities of the pools
FreeNodes(g) == NodeIds \ g.nodes
FreeEdges(g) == EdgeIds \ Edges(g)
FreeAdjs(g) == AdjIds \ Adjs(g)
NewNodeId(g) == Min(FreeNodes(g))
NewEdgeId(g) == Min(FreeEdges(g))
NewAdj1(g) == Min(FreeAdjs(g))
NewAdj2(g) == Min(FreeAdjs(g) \ {NewAdj1(g)})

\* Graph::newNode()
G_newNode(g) == [g EXCEPT !.nodes = @ \cup {NewNodeId(g)}]

\* Graph::newEdge(node v, node w): both entries appended
G_newEdgeNN(g, v, w) ==
    LET aS == NewAdj1(g)
        aT == NewAdj2(g)
        e == NewEdgeId(g)
        l1 == [g.adjEntries EXCEPT ![v] = Append(@, aS)]
        l2 == [l1 EXCEPT ![w] = Append(@, aT)]
    IN  [g EXCEPT !.adjEntries = l2, !.adjSrc[e] = aS, !.adjTgt[e] = aT]

\* Graph::newEdge(adjEntry adjStart, adjEntry adjEnd, Direction dir)
G_newEdge(g, adjStart, adjEnd, dir) ==
    LET v == theNode(g, adjStart)
        w == theNode(g, adjEnd)
        aT == NewAdj2(g)
        aS == NewAdj1(g)
        e == NewEdgeId(g)
        l1 == [g.adjEntries EXCEPT ![w] =
                 IF dir = "after" THEN insertAfter(@, aT, adjEnd)
                                  ELSE insertBefore(@, aT, adjEnd)]
        l2 == [l1 EXCEPT ![v] =
                 IF dir = "after" THEN insertAfter(@, aS, adjStart)
                                  ELSE insertBefore(@, aS, adjStart)]
    IN  [g EXCEPT !.adjEntries = l2, !.adjSrc[e] = aS, !.adjTgt[e] = aT]

\* Graph::newEdge(adjEntry adjSrc, node w): edge from the node of adjSrc to w
G_newEdgeAN(g, adjStart, w) ==
    LET v == theNode(g, adjStart)
        aT == NewAdj2(g)
        aS == NewAdj1(g)
        e == NewEdgeId(g)
        l1 == [g.adjEntries EXCEPT ![w] = Append(@, aT)]
        l2 == [l1 EXCEPT ![v] = insertAfter(@, aS, adjStart)]
    IN  [g EXCEPT !.adjEntries = l2, !.adjSrc[e] = aS, !.adjTgt[e] = aT]

\* Graph::newEdge(node v, adjEntry adjTgt): edge from v to the node of adjTgt
G_newEdgeNA(g, v, adjEnd) ==
    LET w == theNode(g, adjEnd)
        aT == NewAdj2(g)
        aS == NewAdj1(g)
        e == NewEdgeId(g)
        l1 == [g.adjEntries EXCEPT ![v] = Append(@, aS)]
        l2 == [l1 EXCEPT ![w] = insertAfter(@, aT, adjEnd)]
    IN  [g EXCEPT !.adjEntries = l2, !.adjSrc[e] = aS, !.adjTgt[e] = aT]

\* Graph::delEdge(edge e)
G_delEdge(g, e) ==
    LET aS == g.adjSrc[e]
        aT == g.adjTgt[e]
    IN  [g EXCEPT !.adjEntries = [v \in NodeIds |-> del(del(@[v], aS), aT)],
                  !.adjSrc[e] = nullptr, !.adjTgt[e] = nullptr]

\* Graph::delNode(node v): the node and its incident edges
G_delNode(g, v) ==
    LET gone == {e \in Edges(g) : source(g, e) = v \/ target(g, e) = v}
        dead == {g.adjSrc[e] : e \in gone} \cup {g.adjTgt[e] : e \in gone}
    IN  [nodes |-> g.nodes \ {v},
         adjEntries |-> [u \in NodeIds |->
             IF u = v THEN <<>>
             ELSE SelectSeq(g.adjEntries[u], LAMBDA a : a \notin dead)],
         adjSrc |-> [e \in EdgeIds |-> IF e \in gone THEN nullptr ELSE g.adjSrc[e]],
         adjTgt |-> [e \in EdgeIds |-> IF e \in gone THEN nullptr ELSE g.adjTgt[e]]]

\* Graph::split(edge e): e = (v,w) becomes e = (v,u), e2 = (u,w) with a new
\* node u; the old target entry of e becomes the target entry of e2
G_split(g, e) ==
    LET u == NewNodeId(g)
        e2 == NewEdgeId(g)
        adjTgtNew == NewAdj1(g)
        adjSrcNew == NewAdj2(g)
    IN  [nodes |-> g.nodes \cup {u},
         adjEntries |-> [g.adjEntries EXCEPT ![u] = <<adjTgtNew, adjSrcNew>>],
         adjSrc |-> [g.adjSrc EXCEPT ![e2] = adjSrcNew],
         adjTgt |-> [g.adjTgt EXCEPT ![e2] = g.adjTgt[e], ![e] = adjTgtNew]]

\* Graph::unsplit(edge eIn, edge eOut): u = target(eIn) = source(eOut) of
\* degree 2 disappears together with eOut; eIn takes the target entry of eOut
G_unsplit(g, eIn, eOut) ==
    LET u == target(g, eIn)
    IN  [nodes |-> g.nodes \ {u},
         adjEntries |-> [g.adjEntries EXCEPT ![u] = <<>>],
         adjSrc |-> [g.adjSrc EXCEPT ![eOut] = nullptr],
         adjTgt |-> [g.adjTgt EXCEPT ![eIn] = g.adjTgt[eOut], ![eOut] = nullptr]]

\* Graph::moveAdj(adjEntry adj, node w): to the end of the list of w
G_moveAdj(g, adj, w) ==
    LET v == theNode(g, adj)
        l1 == [g.adjEntries EXCEPT ![v] = del(@, adj)]
    IN  [g EXCEPT !.adjEntries = [l1 EXCEPT ![w] = Append(@, adj)]]

\* the loop of Graph::splitNode: moves adj, cyclicSucc(adj), ... up to the
\* entry before adjStartLeft to the node w
RECURSIVE G_moveRange(_, _, _, _)
G_moveRange(g, adj, adjStartLeft, w) ==
    IF adj = adjStartLeft THEN g
    ELSE LET adjSucc == cyclicSucc(g, adj)
         IN  G_moveRange(G_moveAdj(g, adj, w), adjSucc, adjStartLeft, w)

\* Graph::splitNode(adjEntry adjStartLeft, adjEntry adjStartRight)
G_splitNode(g, adjStartLeft, adjStartRight) ==
    LET w == NewNodeId(g)
        g1 == G_newNode(g)
        g2 == G_moveRange(g1, adjStartRight, adjStartLeft, w)
    IN  G_newEdge(g2, adjStartLeft, adjStartRight, "before")

\* the move of one endpoint of an edge, Graph::moveSource / Graph::moveTarget
\* (edge e, adjEntry adjPos, Direction dir): the entry adj of e goes to the
\* list of the node of adjPos, after or before adjPos
G_moveEntry(g, adj, adjPos, dir) ==
    LET g1 == [g EXCEPT !.adjEntries = [v \in NodeIds |-> del(@[v], adj)]]
        w == theNode(g1, adjPos)
    IN  [g1 EXCEPT !.adjEntries[w] =
            IF dir = "after" THEN insertAfter(@, adj, adjPos)
                             ELSE insertBefore(@, adj, adjPos)]

G_moveSource(g, e, adjPos, dir) == G_moveEntry(g, g.adjSrc[e], adjPos, dir)

G_moveTarget(g, e, adjPos, dir) == G_moveEntry(g, g.adjTgt[e], adjPos, dir)

\* the loop of Graph::contract: the entries of w after adjTgt, in cyclic
\* order, are moved in front of adjSrc at v
RECURSIVE G_contractLoop(_, _, _, _)
G_contractLoop(g, adj, adjTgt, adjSrc) ==
    IF adj = adjTgt THEN g
    ELSE LET adjNext == cyclicSucc(g, adj)
         IN  G_contractLoop(G_moveEntry(g, adj, adjSrc, "before"),
                            adjNext, adjTgt, adjSrc)

\* Graph::contract(edge e): w = target(e) is merged into v = source(e)
G_contract(g, e) ==
    LET adjSrc == g.adjSrc[e]
        adjTgt == g.adjTgt[e]
        g1 == G_contractLoop(g, cyclicSucc(g, adjTgt), adjTgt, adjSrc)
    IN  G_delNode(g1, theNode(g1, adjTgt))

\* Graph::reverseEdge(edge e)
G_reverseEdge(g, e) ==
    [g EXCEPT !.adjSrc[e] = g.adjTgt[e], !.adjTgt[e] = g.adjSrc[e]]

\* ------------------------------------------------------------------------
\* The embedding (ConstCombinatorialEmbedding / CombinatorialEmbedding):
\* a record s with the fields
\*   g            the graph *m_cpGraph (meaningful when m_cpGraph # nullptr)
\*   m_cpGraph    nullptr or 1 (attached to a graph)
\*   m_rightFace  AdjEntryArray<face>: per adjacency entry its right face
\*   faces        the list of faces (their identifiers, in list order)
\*   m_size       per face, FaceElement::m_size
\*   m_adjFirst   per face, FaceElement::entries.m_adjFirst
\*   m_faceIdCount, m_faceArrayTableSize, m_externalFace
\* Slots of m_rightFace of entries that no longer exist and the fields of
\* deleted faces are never read by the code; they are kept at their null
\* values.
\* ------------------------------------------------------------------------
NoRightFace == [a \in AdjIds |-> nullFace]
NoSize == [f \in FaceIds |-> 0]
NoFirst == [f \in FaceIds |-> nullptr]

\* Graph::nextPower2(start, idCount)
RECURSIVE nextPower2(_, _)
nextPower2(start, idCount) ==
    IF start < idCount THEN nextPower2(2 * start, idCount) ELSE start

\* Graph::genus(): (m - n - isolated - faceCycles + 2 * components) / 2
RECURSIVE reach(_, _)
reach(g, S) ==
    LET T == S \cup {theNode(g, twin(g, a)) :
                       a \in UNION {Range(g.adjEntries[v]) : v \in S}}
    IN  IF T = S THEN S ELSE reach(g, T)

RECURSIVE countComponents(_, _)
countComponents(g, todo) ==
    IF todo = {} THEN 0
    ELSE 1 + countComponents(g, todo \ reach(g, {Min(todo)}))

faceCycles(g) == {Range(faceCycle(g, a)) : a \in Adjs(g)}

genus(g) ==
    LET nIsolated == Cardinality({v \in g.nodes : degree(g, v) = 0})
    IN  (numberOfEdges(g) - Cardinality(g.nodes) - nIsolated
           - Cardinality(faceCycles(g)) + 2 * countComponents(g, g.nodes)) \div 2

\* Graph::representsCombEmbedding()
representsCombEmbedding(g) == genus(g) = 0

\* drops what refers to adjacency entries that are gone (see above)
dropDead(s) ==
    [s EXCEPT !.m_rightFace =
        [a \in AdjIds |-> IF a \in Adjs(s.g) THEN @[a] ELSE nullFace]]

\* The face arrays: per array the table size it was last given and the call
\* that gave it ("none": the array is attached to no embedding)
NoArrays == [x \in ArrayIds |-> [size |-> 0, told |-> "none"]]

\* ConstCombinatorialEmbedding() (default constructor)
Constructed ==
    [g |-> EmptyGraph,
     m_cpGraph |-> nullptr,
     m_rightFace |-> NoRightFace,
     faces |-> <<>>,
     m_size |-> NoSize,
     m_adjFirst |-> NoFirst,
     m_faceIdCount |-> 0,
     m_faceArrayTableSize |-> MIN_FACE_TABLE_SIZE,
     m_externalFace |-> nullFace,
     m_regFaceArrays |-> <<>>,
     fab |-> NoArrays]

\* for(FaceArrayBase *fab : m_regFaceArrays) fab->enlargeTable(
\* m_faceArrayTableSize): the loop of createFaceElement
enlargeTables(s) ==
    [s EXCEPT !.fab = [x \in ArrayIds |->
        IF x \in Range(s.m_regFaceArrays)
        THEN [size |-> s.m_faceArrayTableSize, told |-> "enlargeTable"]
        ELSE @[x]]]

\* ConstCombinatorialEmbedding::reinitArrays()
reinitArrays(s) ==
    [s EXCEPT !.fab = [x \in ArrayIds |->
        IF x \in Range(s.m_regFaceArrays)
        THEN [size |-> s.m_faceArrayTableSize, told |-> "reinit"]
        ELSE @[x]]]

\* ConstCombinatorialEmbedding::registerArray(pFaceArray): pushBack; the
\* iterator returned is the position of the new list element
registerArray(s, pFaceArray) ==
    [st |-> [s EXCEPT !.m_regFaceArrays = Append(@, pFaceArray)],
     ret |-> Len(s.m_regFaceArrays) + 1]

\* ConstCombinatorialEmbedding::unregisterArray(it)
unregisterArray(s, it) ==
    [s EXCEPT !.m_regFaceArrays =
        SubSeq(@, 1, it - 1) \o SubSeq(@, it + 1, Len(@))]

\* ConstCombinatorialEmbedding::moveRegisterArray(it, pFaceArray)
moveRegisterArray(s, it, pFaceArray) ==
    [s EXCEPT !.m_regFaceArrays[it] = pFaceArray]

\* A face array x is constructed for the embedding: it allocates its table
\* with the table size of the embedding and registers itself
FaceArray_construct(s, x) ==
    registerArray(
        [s EXCEPT !.fab[x] = [size |-> s.m_faceArrayTableSize,
                              told |-> "construct"]], x)

\* The face array at list position it is destroyed: it unregisters itself
FaceArray_destroy(s, it) ==
    LET x == s.m_regFaceArrays[it]
    IN  unregisterArray([s EXCEPT !.fab[x] = NoArrays[x]], it)

\* The face array at list position it is moved into the new array x, which
\* takes over its table and its registration
FaceArray_move(s, it, x) ==
    LET old == s.m_regFaceArrays[it]
    IN  moveRegisterArray(
            [s EXCEPT !.fab[x] = s.fab[old], !.fab[old] = NoArrays[old]],
            it, x)

\* the loop of computeFaces over the adjacency entries adjs
RECURSIVE computeFacesLoop(_, _)
computeFacesLoop(s, adjs) ==
    IF adjs = <<>> THEN s
    ELSE LET adj == Head(adjs)
         IN  IF s.m_rightFace[adj] # nullFace
             THEN computeFacesLoop(s, Tail(adjs))
             ELSE LET f == s.m_faceIdCount
                      cyc == faceCycle(s.g, adj)
                  IN  computeFacesLoop(
                        [s EXCEPT !.m_faceIdCount = f + 1,
                                  !.faces = Append(@, f),
                                  !.m_adjFirst[f] = adj,
                                  !.m_rightFace = [a \in AdjIds |->
                                      IF a \in Range(cyc) THEN f ELSE @[a]],
                                  !.m_size[f] = Len(cyc)],
                        Tail(adjs))

\* computeFaces() without m_externalFace = nullptr
computeFaces_keepsExternalFace(s) ==
    LET s0 == [s EXCEPT !.m_faceIdCount = 0,
                        !.faces = <<>>,
                        !.m_size = NoSize,
                        !.m_adjFirst = NoFirst,
                        !.m_rightFace = NoRightFace]
        s1 == computeFacesLoop(s0, allAdj(s.g))
    IN  reinitArrays([s1 EXCEPT !.m_faceArrayTableSize =
                      nextPower2(MIN_FACE_TABLE_SIZE, s1.m_faceIdCount)])

\* ConstCombinatorialEmbedding::computeFaces()
computeFaces(s) ==
    LET s0 == [s EXCEPT !.m_externalFace = nullFace,
                        !.m_faceIdCount = 0,
                        !.faces = <<>>,
                        !.m_size = NoSize,
                        !.m_adjFirst = NoFirst,
                        !.m_rightFace = NoRightFace]
        s1 == computeFacesLoop(s0, allAdj(s.g))
    IN  reinitArrays([s1 EXCEPT !.m_faceArrayTableSize =
                      nextPower2(MIN_FACE_TABLE_SIZE, s1.m_faceIdCount)])

\* init(G) without the test of representsCombEmbedding()
init_unchecked(s, G) ==
    IF FALSE THEN [st |-> s, err |-> "notEmbedding"]
    ELSE [st |-> computeFaces([s EXCEPT !.g = G, !.m_cpGraph = 1,
                                        !.m_rightFace = NoRightFace]),
          err |-> "none"]

\* ConstCombinatorialEmbedding::init(const Graph &G): the new state, or the
\* old one when the precondition error is thrown
init(s, G) ==
    IF ~representsCombEmbedding(G) THEN [st |-> s, err |-> "notEmbedding"]
    ELSE [st |-> computeFaces([s EXCEPT !.g = G, !.m_cpGraph = 1,
                                        !.m_rightFace = NoRightFace]),
          err |-> "none"]

\* ConstCombinatorialEmbedding(const Graph &G): the object constructed, or
\* the one there was when the precondition error is thrown
ctor(s, G) ==
    IF ~representsCombEmbedding(G) THEN [st |-> s, err |-> "notEmbedding"]
    ELSE [st |-> computeFaces([Constructed EXCEPT !.g = G, !.m_cpGraph = 1]),
          err |-> "none"]

\* CombinatorialEmbedding::clear()
clear(s) ==
    reinitArrays(
        [s EXCEPT !.g = EmptyGraph,
                  !.faces = <<>>,
                  !.m_size = NoSize,
                  !.m_adjFirst = NoFirst,
                  !.m_rightFace = NoRightFace,
                  !.m_faceIdCount = 0,
                  !.m_faceArrayTableSize = MIN_FACE_TABLE_SIZE,
                  !.m_externalFace = nullFace])

\* createFaceElement(adjFirst) with the number of faces as identifier
createFaceElement_countsFaces(s, adjFirst) ==
    LET f == Len(s.faces)
        s1 == IF s.m_faceIdCount = s.m_faceArrayTableSize
              THEN enlargeTables([s EXCEPT !.m_faceArrayTableSize = 2 * @])
              ELSE s
    IN  [s1 EXCEPT !.m_faceIdCount = f + 1,
                  !.faces = Append(@, f),
                  !.m_size[f] = 0,
                  !.m_adjFirst[f] = adjFirst]

\* createFaceElement(adjFirst) without the doubling of the table size
createFaceElement_neverGrows(s, adjFirst) ==
    LET f == s.m_faceIdCount
    IN  [s EXCEPT !.m_faceIdCount = f + 1,
                  !.faces = Append(@, f),
                  !.m_size[f] = 0,
                  !.m_adjFirst[f] = adjFirst]

\* createFaceElement(adjFirst) without the enlargeTable calls
createFaceElement_tellsNoArray(s, adjFirst) ==
    LET f == s.m_faceIdCount
        s1 == IF s.m_faceIdCount = s.m_faceArrayTableSize
              THEN [s EXCEPT !.m_faceArrayTableSize = 2 * @]
              ELSE s
    IN  [s1 EXCEPT !.m_faceIdCount = f + 1,
                   !.faces = Append(@, f),
                   !.m_size[f] = 0,
                   !.m_adjFirst[f] = adjFirst]

\* ConstCombinatorialEmbedding::createFaceElement(adjEntry adjFirst); the
\* new face is the one with identifier s.m_faceIdCount
createFaceElement(s, adjFirst) ==
    LET f == s.m_faceIdCount
        s1 == IF s.m_faceIdCount = s.m_faceArrayTableSize
              THEN enlargeTables([s EXCEPT !.m_faceArrayTableSize = 2 * @])
              ELSE s
    IN  [s1 EXCEPT !.m_faceIdCount = f + 1,
                  !.faces = Append(@, f),
                  !.m_size[f] = 0,
                  !.m_adjFirst[f] = adjFirst]

\* split(e) without ++f2->m_size
split_oneFace(s, e) ==
    LET f1 == s.m_rightFace[s.g.adjSrc[e]]
        f2 == s.m_rightFace[s.g.adjTgt[e]]
        e2 == NewEdgeId(s.g)
        g2 == G_split(s.g, e)
        s1 == [s EXCEPT !.g = g2,
                        !.m_rightFace[g2.adjSrc[e]] = f1,
                        !.m_rightFace[g2.adjSrc[e2]] = f1,
                        !.m_size[f1] = @ + 1]
    IN  [s1 EXCEPT !.m_rightFace[g2.adjTgt[e]] = f2,
                   !.m_rightFace[g2.adjTgt[e2]] = f2,
                   !.m_size[f2] = @]

\* CombinatorialEmbedding::split(edge e); returns the edge NewEdgeId(s.g)
split(s, e) ==
    LET f1 == s.m_rightFace[s.g.adjSrc[e]]
        f2 == s.m_rightFace[s.g.adjTgt[e]]
        e2 == NewEdgeId(s.g)
        g2 == G_split(s.g, e)
        s1 == [s EXCEPT !.g = g2,
                        !.m_rightFace[g2.adjSrc[e]] = f1,
                        !.m_rightFace[g2.adjSrc[e2]] = f1,
                        !.m_size[f1] = @ + 1]
    IN  [s1 EXCEPT !.m_rightFace[g2.adjTgt[e]] = f2,
                   !.m_rightFace[g2.adjTgt[e2]] = f2,
                   !.m_size[f2] = @ + 1]

\* unsplit(eIn, eOut) without --f2->m_size
unsplit_oneFace(s, eIn, eOut) ==
    LET g == s.g
        f1 == s.m_rightFace[g.adjSrc[eIn]]
        f2 == s.m_rightFace[g.adjTgt[eIn]]
        s1 == [s EXCEPT !.m_size[f1] = @ - 1]
        s2 == s1
        s3 == IF s2.m_adjFirst[f1] = g.adjSrc[eOut]
              THEN [s2 EXCEPT !.m_adjFirst[f1] = g.adjSrc[eIn]] ELSE s2
        s4 == IF s3.m_adjFirst[f2] = g.adjTgt[eIn]
              THEN [s3 EXCEPT !.m_adjFirst[f2] = g.adjTgt[eOut]] ELSE s3
    IN  dropDead([s4 EXCEPT !.g = G_unsplit(g, eIn, eOut)])

\* CombinatorialEmbedding::unsplit(edge eIn, edge eOut)
unsplit(s, eIn, eOut) ==
    LET g == s.g
        f1 == s.m_rightFace[g.adjSrc[eIn]]
        f2 == s.m_rightFace[g.adjTgt[eIn]]
        s1 == [s EXCEPT !.m_size[f1] = @ - 1]
        s2 == [s1 EXCEPT !.m_size[f2] = @ - 1]
        s3 == IF s2.m_adjFirst[f1] = g.adjSrc[eOut]
              THEN [s2 EXCEPT !.m_adjFirst[f1] = g.adjSrc[eIn]] ELSE s2
        s4 == IF s3.m_adjFirst[f2] = g.adjTgt[eIn]
              THEN [s3 EXCEPT !.m_adjFirst[f2] = g.adjTgt[eOut]] ELSE s3
    IN  dropDead([s4 EXCEPT !.g = G_unsplit(g, eIn, eOut)])

\* ConstCombinatorialEmbedding::leftFace(adjEntry adj)
leftFace(s, adj) == s.m_rightFace[twin(s.g, adj)]

\* CombinatorialEmbedding::splitNode(adjStartLeft, adjStartRight); returns
\* the node NewNodeId(s.g)
splitNode(s, adjStartLeft, adjStartRight) ==
    LET fL == leftFace(s, adjStartLeft)
        fR == leftFace(s, adjStartRight)
        g2 == G_splitNode(s.g, adjStartLeft, adjStartRight)
        adj == cyclicPred(g2, adjStartLeft)
        s1 == [s EXCEPT !.g = g2,
                        !.m_rightFace[adj] = fL,
                        !.m_size[fL] = @ + 1]
    IN  [s1 EXCEPT !.m_rightFace[twin(g2, adj)] = fR,
                   !.m_size[fR] = @ + 1]

\* CombinatorialEmbedding::contract(edge e)
contract(s, e) ==
    LET g == s.g
        adjSrc == g.adjSrc[e]
        adjTgt == g.adjTgt[e]
        fSrc == s.m_rightFace[adjSrc]
        fTgt == s.m_rightFace[adjTgt]
        s1 == IF s.m_adjFirst[fSrc] = adjSrc
              THEN LET adj == faceCycleSucc(g, adjSrc)
                   IN  [s EXCEPT !.m_adjFirst[fSrc] =
                          IF adj # adjTgt THEN adj ELSE faceCycleSucc(g, adj)]
              ELSE s
        s2 == IF s1.m_adjFirst[fTgt] = adjTgt
              THEN LET adj == faceCycleSucc(g, adjTgt)
                   IN  [s1 EXCEPT !.m_adjFirst[fTgt] =
                          IF adj # adjSrc THEN adj ELSE faceCycleSucc(g, adj)]
              ELSE s1
        s3 == [s2 EXCEPT !.g = G_contract(g, e), !.m_size[fSrc] = @ - 1]
    IN  dropDead([s3 EXCEPT !.m_size[fTgt] = @ - 1])

\* the tests of splitFace without the one of adjSrc == adjTgt
splitFaceThrows_facesOnly(s, adjSrc, adjTgt) ==
    IF s.m_rightFace[adjSrc] # s.m_rightFace[adjTgt] THEN "differentFaces"
    ELSE "none"

\* the two tests at the head of splitFace(adjEntry adjSrc, adjEntry adjTgt):
\* the precondition error thrown, if any
splitFaceThrows(s, adjSrc, adjTgt) ==
    IF s.m_rightFace[adjSrc] # s.m_rightFace[adjTgt] THEN "differentFaces"
    ELSE IF adjSrc = adjTgt THEN "sameAdjEntry"
    ELSE "none"

\* splitFace(adjSrc, adjTgt) without m_rightFace[e->adjSource()] = f1
splitFace_sourceNotSet(s, adjSrc, adjTgt) ==
    IF splitFaceThrows(s, adjSrc, adjTgt) # "none"
    THEN [st |-> s, err |-> splitFaceThrows(s, adjSrc, adjTgt), ret |-> nullptr]
    ELSE LET e == NewEdgeId(s.g)
             g2 == G_newEdge(s.g, adjSrc, adjTgt, "after")
             f1 == s.m_rightFace[adjTgt]
             f2 == s.m_faceIdCount
             s1 == createFaceElement([s EXCEPT !.g = g2], adjSrc)
             cyc == faceCycle(g2, adjSrc)
             s2 == [s1 EXCEPT !.m_rightFace = [a \in AdjIds |->
                                   IF a \in Range(cyc) THEN f2 ELSE @[a]],
                              !.m_size[f2] = @ + Len(cyc)]
             s3 == [s2 EXCEPT !.m_adjFirst[f1] = adjTgt,
                              !.m_size[f1] = @ + (2 - s2.m_size[f2])]
         IN  [st |-> s3, err |-> "none", ret |-> e]

\* splitFace(adjSrc, adjTgt) with createFaceElement(adjSrc) ahead of the two
\* tests
splitFace_createsFaceBeforeTests(s, adjSrc, adjTgt) ==
    IF splitFaceThrows(s, adjSrc, adjTgt) # "none"
    THEN [st |-> createFaceElement(s, adjSrc),
          err |-> splitFaceThrows(s, adjSrc, adjTgt), ret |-> nullptr]
    ELSE LET e == NewEdgeId(s.g)
             g2 == G_newEdge(s.g, adjSrc, adjTgt, "after")
             f1 == s.m_rightFace[adjTgt]
             f2 == s.m_faceIdCount
             s1 == createFaceElement([s EXCEPT !.g = g2], adjSrc)
             cyc == faceCycle(g2, adjSrc)
             s2 == [s1 EXCEPT !.m_rightFace = [a \in AdjIds |->
                                   IF a \in Range(cyc) THEN f2 ELSE @[a]],
                              !.m_size[f2] = @ + Len(cyc)]
             s3 == [s2 EXCEPT !.m_adjFirst[f1] = adjTgt,
                              !.m_size[f1] = @ + (2 - s2.m_size[f2]),
                              !.m_rightFace[g2.adjSrc[e]] = f1]
         IN  [st |-> s3, err |-> "none", ret |-> e]

\* CombinatorialEmbedding::splitFace(adjEntry adjSrc, adjEntry adjTgt): the
\* new state and the returned edge, or the precondition error thrown
splitFace(s, adjSrc, adjTgt) ==
    IF splitFaceThrows(s, adjSrc, adjTgt) # "none"
    THEN [st |-> s, err |-> splitFaceThrows(s, adjSrc, adjTgt), ret |-> nullptr]
    ELSE LET e == NewEdgeId(s.g)
             g2 == G_newEdge(s.g, adjSrc, adjTgt, "after")
             f1 == s.m_rightFace[adjTgt]
             f2 == s.m_faceIdCount
             s1 == createFaceElement([s EXCEPT !.g = g2], adjSrc)
             cyc == faceCycle(g2, adjSrc)
             s2 == [s1 EXCEPT !.m_rightFace = [a \in AdjIds |->
                                   IF a \in Range(cyc) THEN f2 ELSE @[a]],
                              !.m_size[f2] = @ + Len(cyc)]
             s3 == [s2 EXCEPT !.m_adjFirst[f1] = adjTgt,
                              !.m_size[f1] = @ + (2 - s2.m_size[f2]),
                              !.m_rightFace[g2.adjSrc[e]] = f1]
         IN  [st |-> s3, err |-> "none", ret |-> e]

lastAdj(g, v) == g.adjEntries[v][Len(g.adjEntries[v])]

firstAdj(g, v) == g.adjEntries[v][1]

\* CombinatorialEmbedding::splitFace(adjEntry adj, node v, bool adjSrc)
splitFaceNodeThrows(s, adj, v) ==
    IF degree(s.g, v) # 0 THEN splitFaceThrows(s, adj, lastAdj(s.g, v))
    ELSE "none"

\* splitFace(adj, v, adjSrc) without m_rightFace[e->adjTarget()] = f1
splitFaceNode_targetNotSet(s, adj, v, adjSrc) ==
    IF degree(s.g, v) # 0
    THEN IF adjSrc THEN splitFace(s, adj, lastAdj(s.g, v))
                   ELSE splitFace(s, adj, lastAdj(s.g, v))
    ELSE LET e == NewEdgeId(s.g)
             g2 == IF adjSrc THEN G_newEdgeAN(s.g, adj, v)
                             ELSE G_newEdgeNA(s.g, v, adj)
             f1 == s.m_rightFace[adj]
         IN  [st |-> [s EXCEPT !.g = g2,
                               !.m_rightFace[g2.adjSrc[e]] = f1,
                               !.m_adjFirst[f1] = adj,
                               !.m_size[f1] = @ + 2],
              err |-> "none", ret |-> e]

splitFaceNode(s, adj, v, adjSrc) ==
    IF degree(s.g, v) # 0
    THEN IF adjSrc THEN splitFace(s, adj, lastAdj(s.g, v))
                   ELSE splitFace(s, adj, lastAdj(s.g, v))
    ELSE LET e == NewEdgeId(s.g)
             g2 == IF adjSrc THEN G_newEdgeAN(s.g, adj, v)
                             ELSE G_newEdgeNA(s.g, v, adj)
             f1 == s.m_rightFace[adj]
         IN  [st |-> [s EXCEPT !.g = g2,
                               !.m_rightFace[g2.adjSrc[e]] = f1,
                               !.m_adjFirst[f1] = adj,
                               !.m_size[f1] = @ + 2,
                               !.m_rightFace[g2.adjTgt[e]] = f1],
              err |-> "none", ret |-> e]

\* joinFacesPure(e) with f1->m_size += f2->m_size
joinFacesPure_countsEdge(s, e) ==
    LET g == s.g
        r1 == s.m_rightFace[g.adjSrc[e]]
        r2 == s.m_rightFace[g.adjTgt[e]]
        f1 == IF s.m_size[r2] > s.m_size[r1] THEN r2 ELSE r1
        f2 == IF s.m_size[r2] > s.m_size[r1] THEN r1 ELSE r2
        s1 == [s EXCEPT !.m_size[f1] = @ + s.m_size[f2]]
        s2 == IF theEdge(g, s1.m_adjFirst[f1]) = e
              THEN [s1 EXCEPT !.m_adjFirst[f1] = faceCycleSucc(g, @)]
              ELSE s1
        cyc == faceCycle(g, s2.m_adjFirst[f2])
        s3 == [s2 EXCEPT !.m_rightFace = [a \in AdjIds |->
                              IF a \in Range(cyc) THEN f1 ELSE @[a]]]
    IN  [st |-> [s3 EXCEPT !.faces = del(@, f2)], ret |-> f1, gone |-> f2]

\* the body of CombinatorialEmbedding::joinFacesPure(edge e) after its
\* assertions, with f1, f2 the faces it has read; returns the surviving face
\* in ret
joinFacesPure(s, e) ==
    LET g == s.g
        r1 == s.m_rightFace[g.adjSrc[e]]
        r2 == s.m_rightFace[g.adjTgt[e]]
        f1 == IF s.m_size[r2] > s.m_size[r1] THEN r2 ELSE r1
        f2 == IF s.m_size[r2] > s.m_size[r1] THEN r1 ELSE r2
        s1 == [s EXCEPT !.m_size[f1] = @ + s.m_size[f2] - 2]
        s2 == IF theEdge(g, s1.m_adjFirst[f1]) = e
              THEN [s1 EXCEPT !.m_adjFirst[f1] = faceCycleSucc(g, @)]
              ELSE s1
        cyc == faceCycle(g, s2.m_adjFirst[f2])
        s3 == [s2 EXCEPT !.m_rightFace = [a \in AdjIds |->
                              IF a \in Range(cyc) THEN f1 ELSE @[a]]]
    IN  [st |-> [s3 EXCEPT !.faces = del(@, f2)], ret |-> f1, gone |-> f2]

\* releases the fields of a face that faces.del has deleted, unless the
\* face is the survivor itself (f1 = f2)
freeFace(s, f, keep) ==
    IF f = keep THEN s
    ELSE [s EXCEPT !.m_size[f] = 0, !.m_adjFirst[f] = nullptr]

\* CombinatorialEmbedding::joinFaces(edge e)
joinFaces(s, e) ==
    LET j == joinFacesPure(s, e)
        s1 == freeFace(j.st, j.gone, j.ret)
    IN  [st |-> dropDead([s1 EXCEPT !.g = G_delEdge(s.g, e)]), ret |-> j.ret]

\* CombinatorialEmbedding::reverseEdge(edge e)
reverseEdge(s, e) == [s EXCEPT !.g = G_reverseEdge(s.g, e)]

\* the loop of moveBridge: from adj along the face cycle up to adjCand;
\* hang is set when the walk comes back to its start without meeting adjCand
\* (the loop of the code then never ends)
RECURSIVE moveBridgeLoop(_, _, _, _, _, _, _)
moveBridgeLoop(s, adj, adjCand, fOld, fNew, sz, start) ==
    IF adj = adjCand THEN [st |-> s, sz |-> sz, hang |-> FALSE]
    ELSE IF sz > 0 /\ adj = start THEN [st |-> s, sz |-> sz, hang |-> TRUE]
    ELSE LET s1 == IF s.m_adjFirst[fOld] = adj
                   THEN [s EXCEPT !.m_adjFirst[fOld] = adjCand] ELSE s
             s2 == [s1 EXCEPT !.m_rightFace[adj] = fNew]
         IN  moveBridgeLoop(s2, faceCycleSucc(s.g, adj), adjCand,
                            fOld, fNew, sz + 1, start)

\* CombinatorialEmbedding::moveBridge(adjEntry adjBridge, adjEntry adjBefore)
moveBridge(s, adjBridge, adjBefore) ==
    LET g == s.g
        fOld == s.m_rightFace[adjBridge]
        fNew == s.m_rightFace[adjBefore]
        adjCand == faceCycleSucc(g, adjBridge)
        w == moveBridgeLoop(s, twin(g, adjBridge), adjCand, fOld, fNew, 0,
                            twin(g, adjBridge))
        s1 == [w.st EXCEPT !.m_size[fOld] = @ - w.sz]
        s2 == [s1 EXCEPT !.m_size[fNew] = @ + w.sz]
        e == theEdge(g, adjBridge)
        g2 == IF source(g, e) = theNode(g, twin(g, adjBridge))
              THEN G_moveSource(g, e, adjBefore, "after")
              ELSE G_moveTarget(g, e, adjBefore, "after")
    IN  [st |-> [s2 EXCEPT !.g = g2], hang |-> w.hang]

\* CombinatorialEmbedding::removeDeg1(node v)
removeDeg1(s, v) ==
    LET g == s.g
        adj == firstAdj(g, v)
        f == s.m_rightFace[adj]
        s1 == IF s.m_adjFirst[f] = adj \/ s.m_adjFirst[f] = twin(g, adj)
              THEN [s EXCEPT !.m_adjFirst[f] = faceCycleSucc(g, adj)] ELSE s
    IN  dropDead([s1 EXCEPT !.m_size[f] = @ - 2, !.g = G_delNode(g, v)])

\* ConstCombinatorialEmbedding::consistencyCheck(): the walk of the faces
\* fs with the entries visited so far; FALSE as soon as a check fails
RECURSIVE checkFaces(_, _, _)
checkFaces(s, fs, visited) ==
    IF fs = <<>> THEN visited = Adjs(s.g)
    ELSE LET f == Head(fs)
             adj == s.m_adjFirst[f]
         IN  IF adj \notin Adjs(s.g) THEN FALSE
             ELSE LET cyc == faceCycle(s.g, adj)
                  IN  /\ Range(cyc) \cap visited = {}
                      /\ \A a \in Range(cyc) : s.m_rightFace[a] = f
                      /\ s.m_size[f] = Len(cyc)
                      /\ checkFaces(s, Tail(fs), visited \cup Range(cyc))

consistencyCheck(s) ==
    /\ representsCombEmbedding(s.g)
    /\ checkFaces(s, s.faces, {})

\* ------------------------------------------------------------------------
\* Graphs handed to init(G), built as a caller builds them with newNode and
\* newEdge(v, w)
\* ------------------------------------------------------------------------
Nodes1 == G_newNode(EmptyGraph)
Nodes2 == G_newNode(Nodes1)
Nodes3 == G_newNode(Nodes2)
Nodes4 == G_newNode(Nodes3)

\* one edge and an isolated node
EdgeAndNode == G_newEdgeNN(Nodes3, 1, 2)

\* a self-loop at a single node
Loop == G_newEdgeNN(Nodes1, 1, 1)

\* a triangle 1-2-3
Triangle == G_newEdgeNN(G_newEdgeNN(G_newEdgeNN(Nodes3, 1, 2), 2, 3), 3, 1)

\* the 4-cycle 1-2-3-4-1
Cycle4 ==
    G_newEdgeNN(G_newEdgeNN(G_newEdgeNN(G_newEdgeNN(Nodes4, 1, 2), 2, 3), 3, 4), 4, 1)

\* two parallel edges 1-2 and a pendant edge 2-3
DigonPendant ==
    G_newEdgeNN(G_newEdgeNN(G_newEdgeNN(Nodes3, 1, 2), 2, 1), 2, 3)

\* three parallel edges between two nodes, the same order of the edges at
\* both ends: a single face cycle, genus 1
Theta == G_newEdgeNN(G_newEdgeNN(G_newEdgeNN(Nodes2, 1, 2), 1, 2), 1, 2)

InputGraphs == {EdgeAndNode, Loop, Triangle, Cycle4, DigonPendant, Theta}

\* ------------------------------------------------------------------------
\* State
\* ------------------------------------------------------------------------
VARIABLES G, m_cpGraph, m_rightFace, faces, m_size, m_adjFirst,
          m_faceIdCount, m_faceArrayTableSize, m_externalFace,
          m_regFaceArrays, fab, last, ops,
          m_mutexRegArrays, thr, attached

vars == <<G, m_cpGraph, m_rightFace, faces, m_size, m_adjFirst,
          m_faceIdCount, m_faceArrayTableSize, m_externalFace,
          m_regFaceArrays, fab, last, ops,
          m_mutexRegArrays, thr, attached>>

\* the embedding as a record, and the assignment of a record to the state
St ==
    [g |-> G, m_cpGraph |-> m_cpGraph, m_rightFace |-> m_rightFace,
     faces |-> faces, m_size |-> m_size, m_adjFirst |-> m_adjFirst,
     m_faceIdCount |-> m_faceIdCount,
     m_faceArrayTableSize |-> m_faceArrayTableSize,
     m_externalFace |-> m_externalFace,
     m_regFaceArrays |-> m_regFaceArrays,
     fab |-> fab]

Set(s) ==
    /\ G' = s.g
    /\ m_cpGraph' = s.m_cpGraph
    /\ m_rightFace' = s.m_rightFace
    /\ faces' = s.faces
    /\ m_size' = s.m_size
    /\ m_adjFirst' = s.m_adjFirst
    /\ m_faceIdCount' = s.m_faceIdCount
    /\ m_faceArrayTableSize' = s.m_faceArrayTableSize
    /\ m_externalFace' = s.m_externalFace
    /\ m_regFaceArrays' = s.m_regFaceArrays
    /\ fab' = s.fab

\* last: the operation that ran last, the error it raised, what it returned,
\* the edge it was given (kept for split) and whether it undid the call before
\* it: joinFaces(e) on the edge e that the splitFace just before returned, or
\* unsplit(e, e2) right after e2 = split(e).
\* ops: the number of operator calls that returned normally since the last
\* successful init(G)
Did(op, err, ret, arg) ==
    /\ last' = [op |-> op, err |-> err, ret |-> ret,
                arg |-> IF op = "split" THEN arg ELSE nullptr,
                undo |-> /\ err = "none"
                         /\ last.err = "none"
                         /\ \/ op = "joinFaces" /\ last.op = "splitFace"
                                /\ arg = last.ret
                            \/ op = "unsplit" /\ last.op = "split"
                                /\ arg = <<last.arg, last.ret>>]
    /\ ops' = IF err # "none" THEN ops
              ELSE IF op \in {"init", "ctor"} THEN 0 ELSE ops + 1
    /\ UNCHANGED <<m_mutexRegArrays, thr, attached>>

\* m_mutexRegArrays: the thread that holds the mutex (nullptr: none)
\* thr: per thread, where it is in its call of registerArray, unregisterArray
\*   or moveRegisterArray (pc), the call (op), the array it passes
\*   (pFaceArray), the array whose list iterator it passes (it) and the list
\*   as it found it when its list update began (seen)
\* attached: the arrays registered and not unregistered since, a rebound
\*   iterator counting for its new array
Idle ==
    [pc |-> "idle", op |-> "none", pFaceArray |-> nullptr, it |-> nullptr,
     seen |-> <<>>]

Init ==
    /\ G = Constructed.g
    /\ m_cpGraph = Constructed.m_cpGraph
    /\ m_rightFace = Constructed.m_rightFace
    /\ faces = Constructed.faces
    /\ m_size = Constructed.m_size
    /\ m_adjFirst = Constructed.m_adjFirst
    /\ m_faceIdCount = Constructed.m_faceIdCount
    /\ m_faceArrayTableSize = Constructed.m_faceArrayTableSize
    /\ m_externalFace = Constructed.m_externalFace
    /\ m_regFaceArrays = Constructed.m_regFaceArrays
    /\ fab = Constructed.fab
    /\ last = [op |-> "construct", err |-> "none", ret |-> nullptr,
               arg |-> nullptr, undo |-> FALSE]
    /\ ops = 0
    /\ m_mutexRegArrays = nullptr
    /\ thr = [t \in Threads |-> Idle]
    /\ attached = {}

\* The process is gone after a failed assertion. The operators dereference
\* the faces that m_rightFace holds: once an entry holds a face that
\* faces.del has deleted, what they do is undefined and is not followed.
Running ==
    /\ last.err # "abort"
    /\ \A a \in Adjs(G) : m_rightFace[a] \in Range(faces)

RoomForOp == ops < MaxOps

Attached == Running /\ m_cpGraph # nullptr /\ RoomForOp

\* room in the pools of the model
RoomForNode == FreeNodes(G) # {}
RoomForEdge == FreeEdges(G) # {}
RoomForFace == m_faceIdCount < MaxFaceId

\* ------------------------------------------------------------------------
\* Operations
\* ------------------------------------------------------------------------
InitGraph(g) ==
    /\ Running /\ RoomForOp
    /\ LET r == init(St, g)
       IN  Set(r.st) /\ Did("init", r.err, nullptr, nullptr)

Construct(g) ==
    /\ Running /\ RoomForOp
    /\ LET r == ctor(St, g)
       IN  Set(r.st) /\ Did("ctor", r.err, nullptr, nullptr)

ComputeFaces ==
    /\ Attached
    /\ Set(computeFaces(St))
    /\ Did("computeFaces", "none", nullptr, nullptr)

Clear ==
    /\ Attached
    /\ Set(clear(St))
    /\ Did("clear", "none", nullptr, nullptr)

Split(e) ==
    /\ Attached /\ RoomForNode /\ RoomForEdge
    /\ Set(split(St, e))
    /\ Did("split", "none", NewEdgeId(G), e)

\* eIn and eOut are the two edges at a node u of degree 2, eIn entering and
\* eOut leaving it, neither of them a self-loop
unsplitPre(g, eIn, eOut) ==
    /\ eIn # eOut
    /\ target(g, eIn) = source(g, eOut)
    /\ degree(g, target(g, eIn)) = 2
    /\ source(g, eIn) # target(g, eIn)
    /\ source(g, eOut) # target(g, eOut)

Unsplit(eIn, eOut) ==
    /\ Attached
    /\ unsplitPre(G, eIn, eOut)
    /\ Set(unsplit(St, eIn, eOut))
    /\ Did("unsplit", "none", nullptr, <<eIn, eOut>>)

SplitNode(adjStartLeft, adjStartRight) ==
    /\ Attached /\ RoomForNode /\ RoomForEdge
    /\ adjStartLeft # adjStartRight
    /\ theNode(G, adjStartLeft) = theNode(G, adjStartRight)
    /\ Set(splitNode(St, adjStartLeft, adjStartRight))
    /\ Did("splitNode", "none", NewNodeId(G), nullptr)

Contract(e) ==
    /\ Attached
    /\ source(G, e) # target(G, e)
    /\ Set(contract(St, e))
    /\ Did("contract", "none", source(G, e), nullptr)

SplitFace(adjSrc, adjTgt) ==
    /\ Attached
    /\ splitFaceThrows(St, adjSrc, adjTgt) = "none" => RoomForEdge /\ RoomForFace
    /\ LET r == splitFace(St, adjSrc, adjTgt)
       IN  /\ Set(r.st)
           /\ Did("splitFace", r.err, r.ret, nullptr)

\* splitFace(adjEntry adjSrc, node v)
SplitFaceAdjNode(adjSrc, v) ==
    /\ Attached
    /\ splitFaceNodeThrows(St, adjSrc, v) = "none" => RoomForEdge
    /\ splitFaceNodeThrows(St, adjSrc, v) = "none" /\ degree(G, v) # 0 => RoomForFace
    /\ LET r == splitFaceNode(St, adjSrc, v, TRUE)
       IN  /\ Set(r.st)
           /\ Did("splitFaceAdjNode", r.err, r.ret, nullptr)

\* splitFace(node v, adjEntry adjTgt)
SplitFaceNodeAdj(v, adjTgt) ==
    /\ Attached
    /\ splitFaceNodeThrows(St, adjTgt, v) = "none" => RoomForEdge
    /\ splitFaceNodeThrows(St, adjTgt, v) = "none" /\ degree(G, v) # 0 => RoomForFace
    /\ LET r == splitFaceNode(St, adjTgt, v, FALSE)
       IN  /\ Set(r.st)
           /\ Did("splitFaceNodeAdj", r.err, r.ret, nullptr)

\* joinFacesPure dereferences the first entries of both faces
joinFacesDefined(s, e) ==
    /\ s.m_adjFirst[s.m_rightFace[s.g.adjSrc[e]]] \in Adjs(s.g)
    /\ s.m_adjFirst[s.m_rightFace[s.g.adjTgt[e]]] \in Adjs(s.g)

JoinFaces(e) ==
    /\ Attached
    /\ m_rightFace[G.adjSrc[e]] # m_rightFace[G.adjTgt[e]]
    /\ joinFacesDefined(St, e)
    /\ LET r == joinFaces(St, e)
       IN  Set(r.st) /\ Did("joinFaces", "none", r.ret, e)

ReverseEdge(e) ==
    /\ Attached
    /\ Set(reverseEdge(St, e))
    /\ Did("reverseEdge", "none", nullptr, nullptr)

MoveBridge(adjBridge, adjBefore) ==
    /\ Attached
    /\ m_rightFace[adjBridge] = m_rightFace[twin(G, adjBridge)]
    /\ m_rightFace[adjBridge] # m_rightFace[adjBefore]
    /\ LET r == moveBridge(St, adjBridge, adjBefore)
       IN  /\ ~r.hang
           /\ Set(r.st)
           /\ Did("moveBridge", "none", nullptr, nullptr)

RemoveDeg1(v) ==
    /\ Attached
    /\ degree(G, v) = 1
    /\ Set(removeDeg1(St, v))
    /\ Did("removeDeg1", "none", nullptr, nullptr)

\* ConstCombinatorialEmbedding::setExternalFace(face f)
setExternalFace(s, f) == [s EXCEPT !.m_externalFace = f]

SetExternalFace(f) ==
    /\ Attached
    /\ m_externalFace # f
    /\ Set(setExternalFace(St, f))
    /\ Did("setExternalFace", "none", nullptr, nullptr)

\* joinFaces(e) on an edge with the same face on both sides. The only guard
\* is OGDF_ASSERT(f1 != f2) in joinFacesPure: a build with OGDF_DEBUG stops
\* there, a build without it runs the body with f1 = f2.
JoinFacesSameFace(e) ==
    /\ Attached
    /\ m_rightFace[G.adjSrc[e]] = m_rightFace[G.adjTgt[e]]
    /\ joinFacesDefined(St, e)
    /\ \/ /\ Set(St)
          /\ Did("joinFacesSameFace", "abort", nullptr, nullptr)
       \/ LET r == joinFaces(St, e)
          IN  Set(r.st) /\ Did("joinFacesSameFace", "none", r.ret, nullptr)

Next ==
    \/ \E g \in InputGraphs : InitGraph(g)
    \/ \E g \in InputGraphs : Construct(g)
    \/ ComputeFaces
    \/ Clear
    \/ \E e \in Edges(G) : Split(e)
    \/ \E eIn, eOut \in Edges(G) : Unsplit(eIn, eOut)
    \/ \E a, b \in Adjs(G) : SplitNode(a, b)
    \/ \E e \in Edges(G) : Contract(e)
    \/ \E a, b \in Adjs(G) : SplitFace(a, b)
    \/ \E a \in Adjs(G), v \in G.nodes : SplitFaceAdjNode(a, v)
    \/ \E a \in Adjs(G), v \in G.nodes : SplitFaceNodeAdj(v, a)
    \/ \E e \in Edges(G) : JoinFaces(e)
    \/ \E e \in Edges(G) : ReverseEdge(e)
    \/ \E a, b \in Adjs(G) : MoveBridge(a, b)
    \/ \E v \in G.nodes : RemoveDeg1(v)
    \/ \E f \in Range(faces) : SetExternalFace(f)

Spec == Init /\ [][Next]_vars

\* the callers that also call joinFaces without its precondition
NextMisuse ==
    \/ Next
    \/ \E e \in Edges(G) : JoinFacesSameFace(e)

SpecMisuse == Init /\ [][NextMisuse]_vars

\* ------------------------------------------------------------------------
\* A caller that splits the face right of the first edge of the triangle
\* and joins the two faces again, over and over: the identifier counter
\* grows while the graph stays small
\* ------------------------------------------------------------------------
DidGrow(op, ret) ==
    /\ last' = [op |-> op, err |-> "none", ret |-> ret, arg |-> nullptr,
                undo |-> FALSE]
    /\ ops' = 0
    /\ UNCHANGED <<m_mutexRegArrays, thr, attached>>

GrowInit ==
    /\ Running
    /\ Set(init(St, Triangle).st)
    /\ DidGrow("init", nullptr)

GrowComputeFaces ==
    /\ Running /\ m_cpGraph # nullptr
    /\ Set(computeFaces(St))
    /\ DidGrow("computeFaces", nullptr)

GrowClear ==
    /\ Running /\ m_cpGraph # nullptr
    /\ Set(clear(St))
    /\ DidGrow("clear", nullptr)

GrowSplitFace(adjSrc, adjTgt) ==
    /\ Running /\ m_cpGraph # nullptr
    /\ numberOfEdges(G) = numberOfEdges(Triangle)
    /\ m_rightFace[adjSrc] = m_rightFace[G.adjSrc[1]]
    /\ m_faceIdCount < MaxFaceCount
    /\ splitFaceThrows(St, adjSrc, adjTgt) = "none"
    /\ LET r == splitFace(St, adjSrc, adjTgt)
       IN  Set(r.st) /\ DidGrow("splitFace", r.ret)

GrowJoinFaces(e) ==
    /\ Running /\ m_cpGraph # nullptr
    /\ last.op = "splitFace" /\ e = last.ret
    /\ LET r == joinFaces(St, e)
       IN  Set(r.st) /\ DidGrow("joinFaces", r.ret)

\* a face array is constructed, destroyed, moved; a new array object is the
\* first one that is attached to no embedding
NewArrayId == Min({x \in ArrayIds : fab[x].told = "none"})

GrowRegisterArray ==
    /\ Running
    /\ \E x \in ArrayIds : fab[x].told = "none"
    /\ LET r == FaceArray_construct(St, NewArrayId)
       IN  Set(r.st) /\ DidGrow("registerArray", r.ret)

GrowUnregisterArray(it) ==
    /\ Running
    /\ Set(FaceArray_destroy(St, it))
    /\ DidGrow("unregisterArray", nullptr)

GrowMoveRegisterArray(it) ==
    /\ Running
    /\ \E x \in ArrayIds : fab[x].told = "none"
    /\ Set(FaceArray_move(St, it, NewArrayId))
    /\ DidGrow("moveRegisterArray", nullptr)

NextGrow ==
    \/ GrowInit
    \/ GrowComputeFaces
    \/ GrowClear
    \/ \E a, b \in Adjs(G) : GrowSplitFace(a, b)
    \/ \E e \in Edges(G) : GrowJoinFaces(e)

SpecGrow == Init /\ [][NextGrow]_vars

\* the same caller, who also constructs, destroys and moves face arrays
NextArrays ==
    \/ NextGrow
    \/ GrowRegisterArray
    \/ \E it \in DOMAIN m_regFaceArrays : GrowUnregisterArray(it)
    \/ \E it \in DOMAIN m_regFaceArrays : GrowMoveRegisterArray(it)

SpecArrays == Init /\ [][NextArrays]_vars

\* ------------------------------------------------------------------------
\* Threads that call registerArray, unregisterArray and moveRegisterArray
\* on one embedding. A call is: construct the lock_guard, update the list
\* (the list operation reads the list, then writes it), destroy the guard
\* on return.
\* ------------------------------------------------------------------------
\* lock_guard<mutex> guard(m_mutexRegArrays) without the mutex
lock_guard_noMutex(m) == TRUE

\* lock_guard<mutex> guard(m_mutexRegArrays): constructed once no thread
\* holds the mutex
lock_guard(m) == m = nullptr

\* arrays that some thread is passing to a call in progress
InCall == {thr[t].pFaceArray : t \in Threads} \cup {thr[t].it : t \in Threads}

DidThread(op) ==
    /\ last' = [op |-> op, err |-> "none", ret |-> nullptr, arg |-> nullptr,
                undo |-> FALSE]
    /\ UNCHANGED ops

\* thread t calls registerArray(x) for an array x that is not registered
CallRegisterArray(t, x) ==
    /\ thr[t].pc = "idle"
    /\ x \notin attached \cup InCall
    /\ thr' = [thr EXCEPT ![t] = [Idle EXCEPT !.pc = "lock",
                                              !.op = "registerArray",
                                              !.pFaceArray = x]]
    /\ UNCHANGED <<m_mutexRegArrays, attached>>
    /\ Set(St) /\ DidThread("call")

\* thread t calls unregisterArray(it) with the iterator of array x
CallUnregisterArray(t, x) ==
    /\ thr[t].pc = "idle"
    /\ x \in attached \ InCall
    /\ thr' = [thr EXCEPT ![t] = [Idle EXCEPT !.pc = "lock",
                                              !.op = "unregisterArray",
                                              !.it = x]]
    /\ UNCHANGED <<m_mutexRegArrays, attached>>
    /\ Set(St) /\ DidThread("call")

\* thread t calls moveRegisterArray(it, y) with the iterator of array x
CallMoveRegisterArray(t, x, y) ==
    /\ thr[t].pc = "idle"
    /\ x \in attached \ InCall
    /\ y \notin attached \cup InCall
    /\ thr' = [thr EXCEPT ![t] = [Idle EXCEPT !.pc = "lock",
                                              !.op = "moveRegisterArray",
                                              !.it = x,
                                              !.pFaceArray = y]]
    /\ UNCHANGED <<m_mutexRegArrays, attached>>
    /\ Set(St) /\ DidThread("call")

\* the lock_guard of thread t is constructed
Lock(t) ==
    /\ thr[t].pc = "lock"
    /\ lock_guard(m_mutexRegArrays)
    /\ m_mutexRegArrays' = t
    /\ thr' = [thr EXCEPT ![t].pc = "read"]
    /\ UNCHANGED attached
    /\ Set(St) /\ DidThread("lock")

\* the list operation of thread t begins: it reads the list
ReadList(t) ==
    /\ thr[t].pc = "read"
    /\ thr' = [thr EXCEPT ![t].pc = "write", ![t].seen = m_regFaceArrays]
    /\ UNCHANGED <<m_mutexRegArrays, attached>>
    /\ Set(St) /\ DidThread("read")

\* the list operation of thread t ends: it writes the list it read, changed
\* by pushBack(pFaceArray), del(it) or *it = pFaceArray
WriteList(t) ==
    /\ thr[t].pc = "write"
    /\ LET c == thr[t]
           s == [St EXCEPT !.m_regFaceArrays = c.seen]
           found == c.it \in Range(c.seen)
       IN  /\ Set(CASE c.op = "registerArray" ->
                         registerArray(s, c.pFaceArray).st
                    [] c.op = "unregisterArray" /\ found ->
                         unregisterArray(s, IndexOf(c.seen, c.it))
                    [] c.op = "moveRegisterArray" /\ found ->
                         moveRegisterArray(s, IndexOf(c.seen, c.it),
                                           c.pFaceArray)
                    [] OTHER -> s)
           /\ attached' =
                 CASE c.op = "registerArray" -> attached \cup {c.pFaceArray}
                   [] c.op = "unregisterArray" -> attached \ {c.it}
                   [] OTHER -> (attached \ {c.it}) \cup {c.pFaceArray}
           /\ DidThread(c.op)
    /\ thr' = [thr EXCEPT ![t].pc = "unlock"]
    /\ UNCHANGED m_mutexRegArrays

\* the call of thread t returns: its lock_guard is destroyed
Unlock(t) ==
    /\ thr[t].pc = "unlock"
    /\ m_mutexRegArrays' = IF m_mutexRegArrays = t THEN nullptr
                           ELSE m_mutexRegArrays
    /\ thr' = [thr EXCEPT ![t] = Idle]
    /\ UNCHANGED attached
    /\ Set(St) /\ DidThread("return")

NextThreads ==
    \E t \in Threads :
        \/ \E x \in ThreadArrayIds : CallRegisterArray(t, x)
        \/ \E x \in ThreadArrayIds : CallUnregisterArray(t, x)
        \/ \E x, y \in ThreadArrayIds : CallMoveRegisterArray(t, x, y)
        \/ Lock(t)
        \/ ReadList(t)
        \/ WriteList(t)
        \/ Unlock(t)

SpecThreads == Init /\ [][NextThreads]_vars

\* ------------------------------------------------------------------------
\* Properties
\* ------------------------------------------------------------------------
\* the half-edges that the right-face map sends to the face f
members(s, f) == {a \in Adjs(s.g) : s.m_rightFace[a] = f}

\* the half-edges on the boundary of f: the face cycle of its first entry
boundary(s, f) ==
    IF s.m_adjFirst[f] \in Adjs(s.g)
    THEN Range(faceCycle(s.g, s.m_adjFirst[f])) ELSE {}

\* f is a face of the registry whose boundary has m_size half-edges, which
\* are the half-edges that the right-face map sends to f
isFace(s, f) ==
    /\ f \in Range(s.faces)
    /\ boundary(s, f) # {}
    /\ boundary(s, f) = members(s, f)
    /\ s.m_size[f] = Cardinality(boundary(s, f))

\* the faces as sets of half-edges with their sizes, identifiers forgotten
faceSet(s) == {<<members(s, f), s.m_size[f]>> : f \in Range(s.faces)}

RECURSIVE sumOfSizes(_, _)
sumOfSizes(s, fs) ==
    IF fs = <<>> THEN 0 ELSE s.m_size[Head(fs)] + sumOfSizes(s, Tail(fs))

Returned(op) == last.op = op /\ last.err = "none"

\* C1: after any sequence of structural operators called with their stated
\* preconditions, consistencyCheck() holds and the faces are those of a
\* fresh computeFaces() on the graph, up to the identifiers.
C1_ConsistentAfterOperators ==
    m_cpGraph # nullptr =>
        /\ consistencyCheck(St)
        /\ faceSet(St) = faceSet(computeFaces(St))

\* what a full derivation leaves: see C2
C2_Derived(s) ==
    /\ \A a \in Adjs(s.g) : s.m_rightFace[a] \in Range(s.faces)
    /\ \A f \in Range(s.faces) :
          /\ members(s, f) \in faceCycles(s.g)
          /\ s.m_size[f] = Cardinality(members(s, f))
          /\ s.m_adjFirst[f] \in members(s, f)
    /\ Len(s.faces) = Cardinality(faceCycles(s.g))
    /\ \A i \in DOMAIN s.faces : s.faces[i] = i - 1
    /\ s.m_faceIdCount = Len(s.faces)
    /\ s.m_externalFace = nullFace

\* C2: on a graph that represents a combinatorial embedding, computeFaces()
\* puts every half-edge in exactly one face, each face is one orbit of
\* faceCycleSucc with its length as size and one of its half-edges as first
\* entry, there are as many faces as orbits, the identifiers are 0..n-1 and
\* the external face is none.
C2_ComputeFacesDerivesOrbits ==
    /\ m_cpGraph # nullptr /\ representsCombEmbedding(G)
          => C2_Derived(computeFaces(St))
    /\ (Returned("computeFaces") \/ Returned("init") \/ Returned("ctor"))
          /\ representsCombEmbedding(G)
          => C2_Derived(St)

\* the 4-cycle has been derived: two faces of size 4
C2_Witness ==
    /\ Returned("init") /\ G = Cycle4
    /\ faces = <<0, 1>> /\ m_size[0] = 4 /\ m_size[1] = 4

\* C3: in every state reached through the structural operators the sizes of
\* the faces of the registry add up to twice the number of edges.
C3_SizesAddUpToTwiceEdges ==
    sumOfSizes(St, faces) = 2 * numberOfEdges(G)

C3_Witness ==
    /\ ops = MaxOps /\ Returned("moveBridge")
    /\ sumOfSizes(St, faces) = 6

\* the faces other than those in fs are in the registry as they were: same
\* size, same first entry, same half-edges
othersUnchanged(s, t, fs) ==
    \A h \in Range(s.faces) \ fs :
        /\ h \in Range(t.faces)
        /\ t.m_size[h] = s.m_size[h]
        /\ t.m_adjFirst[h] = s.m_adjFirst[h]
        /\ members(t, h) = members(s, h)

\* what splitFace(a, b) has made of the state s when it returned the edge e
\* in the state t
C4_Split(s, t, a, b, e) ==
    LET f == s.m_rightFace[a]
        g == s.m_faceIdCount
        cyc == faceCycle(t.g, a)
    IN  /\ Len(t.faces) = Len(s.faces) + 1
        /\ f \in Range(t.faces) /\ t.m_adjFirst[f] = b
        /\ g \notin Range(s.faces) /\ g \in Range(t.faces) /\ g # f
        /\ \A h \in Range(s.faces) : h < g
        /\ t.m_adjFirst[g] = a
        /\ t.m_size[g] = Len(cyc)
        /\ t.m_size[f] = s.m_size[f] - Len(cyc) + 2
        /\ members(t, g) = Range(cyc)
        /\ t.m_rightFace[t.g.adjSrc[e]] = f
        /\ othersUnchanged(s, t, {f})

\* C4: splitFace(adjSrc, adjTgt) with two distinct half-edges of one face f
\* of size s (the record of f holds the face cycle of adjSrc and its length)
\* adds exactly one face: f stays with first entry adjTgt, a face
\* g with a fresh identifier gets first entry adjSrc and as size the length
\* k of the face cycle of adjSrc after the insertion, f gets size s - k + 2,
\* exactly that cycle is sent to g, the source half-edge of the new edge to
\* f, and the other faces stay as they were.
C4_SplitFaceAddsOneFace ==
    [][\A a, b \in AdjIds :
          (/\ last'.op = "splitFace" /\ last'.err = "none"
           /\ a \in Adjs(G) /\ b \in Adjs(G) /\ a # b
           /\ m_rightFace[a] = m_rightFace[b]
           /\ isFace(St, m_rightFace[a])
           /\ SplitFace(a, b))
          => C4_Split(St, St', a, b, last'.ret)]_vars

\* the diagonal of the 4-cycle: three faces of sizes 4, 3, 3
C4_Witness ==
    /\ Returned("splitFace") /\ ops = 1
    /\ Cardinality(G.nodes) = 4 /\ numberOfEdges(G) = 5
    /\ faces = <<0, 1, 2>>
    /\ {m_size[0], m_size[1]} = {3, 4} /\ m_size[2] = 3

\* what joinFaces(e) has made of the state s when it returned the face ret
\* in the state t
C5_Join(s, t, e, ret) ==
    LET f1 == s.m_rightFace[s.g.adjSrc[e]]
        f2 == s.m_rightFace[s.g.adjTgt[e]]
        survivor == IF s.m_size[f2] > s.m_size[f1] THEN f2 ELSE f1
        removed == IF s.m_size[f2] > s.m_size[f1] THEN f1 ELSE f2
    IN  /\ Len(t.faces) = Len(s.faces) - 1
        /\ removed \notin Range(t.faces)
        /\ survivor \in Range(t.faces)
        /\ Range(t.faces) = Range(s.faces) \ {removed}
        /\ t.m_size[survivor] = s.m_size[f1] + s.m_size[f2] - 2
        /\ \A a \in Adjs(t.g) :
              s.m_rightFace[a] = removed => t.m_rightFace[a] = survivor
        /\ ret = survivor

\* the first entry of the face f is not a half-edge of the edge e of s
firstNotOf(s, t, f, e) ==
    t.m_adjFirst[f] \notin {s.g.adjSrc[e], s.g.adjTgt[e]}

\* C5: joinFaces(e) on an edge between two different faces f1 and f2 removes
\* exactly one face, the one with strictly fewer half-edges (f2 on equal
\* sizes); the survivor gets size(f1) + size(f2) - 2 and the half-edges of
\* the removed face, its first entry is not a half-edge of e, and it is the
\* face returned.
C5_JoinFacesMergesSmaller ==
    [][\A e \in EdgeIds :
          (/\ last'.op = "joinFaces"
           /\ e \in Edges(G)
           /\ isFace(St, m_rightFace[G.adjSrc[e]])
           /\ isFace(St, m_rightFace[G.adjTgt[e]])
           /\ JoinFaces(e))
          => /\ C5_Join(St, St', e, last'.ret)
             /\ firstNotOf(St, St', last'.ret, e)]_vars

\* C6: splitFace(adjSrc, adjTgt) throws the precondition error when the
\* right faces of adjSrc and adjTgt differ or adjSrc = adjTgt, and in no
\* other case: every step that is splitFace(a, b) ends with an error exactly
\* in these cases. (A step whose error is not the one splitFace(a, b)
\* throws is not splitFace(a, b): the second disjunct only spares the
\* comparison of the whole state in the third.)
C6_SplitFaceThrowsIff ==
    [][\A a, b \in AdjIds :
          (/\ last'.op = "splitFace"
           /\ a \in Adjs(G) /\ b \in Adjs(G))
          => \/ last'.err # "none" <=> (m_rightFace[a] # m_rightFace[b] \/ a = b)
             \/ last'.err # splitFaceThrows(St, a, b)
             \/ ~SplitFace(a, b)]_vars

\* splitFace has refused two different half-edges of different faces
C6_Witness ==
    /\ last.op = "splitFace" /\ last.err = "differentFaces"
    /\ Cardinality(Range(faces)) >= 2

\* C7: joinFaces(e) on an edge with the same face on both sides fails with
\* an error the caller gets: no face is removed, no size is changed and the
\* edge is not deleted.
C7_JoinFacesSameFaceIsRefused ==
    [][last'.op = "joinFacesSameFace"
          => /\ last'.err # "none"
             /\ faces' = faces
             /\ m_size' = m_size
             /\ G' = G]_vars

\* C8: the constructor from a graph and init(G) throw the precondition error
\* when G does not represent a combinatorial embedding, and then leave the
\* embedding as it was; when G does, they throw nothing and derive the
\* faces of G.
C8_InitChecksEmbedding ==
    [][\A g \in InputGraphs :
          (last'.op \in {"init", "ctor"} /\ (InitGraph(g) \/ Construct(g)))
          => IF representsCombEmbedding(g)
             THEN /\ last'.err = "none"
                  /\ G' = g /\ m_cpGraph' # nullptr
                  /\ C2_Derived(St')
             ELSE /\ last'.err = "notEmbedding"
                  /\ St' = St]_vars

\* init with a graph of genus 1 has been refused by an embedding that holds
\* the faces of another graph
C8_Witness ==
    /\ last.op = "init" /\ last.err = "notEmbedding"
    /\ m_cpGraph # nullptr /\ faces # <<>>

\* e = splitFace(a, b) in the state s and then joinFaces(e): the faces are
\* as many as in s, the face returned has the size and the half-edges that
\* the face of a had, the other faces have theirs
C9_Restored(s, a, b) ==
    LET f == s.m_rightFace[a]
        r == splitFace(s, a, b)
        e == r.ret
        j == joinFaces(r.st, e)
        t == j.st
    IN  /\ r.err = "none"
        /\ r.st.m_rightFace[r.st.g.adjSrc[e]] # r.st.m_rightFace[r.st.g.adjTgt[e]]
        /\ joinFacesDefined(r.st, e)
        /\ Len(t.faces) = Len(s.faces)
        /\ j.ret \in Range(t.faces)
        /\ t.m_size[j.ret] = s.m_size[f]
        /\ members(t, j.ret) = members(s, f)
        /\ Range(t.faces) \ {j.ret} = Range(s.faces) \ {f}
        /\ \A h \in Range(s.faces) \ {f} :
              /\ t.m_size[h] = s.m_size[h]
              /\ members(t, h) = members(s, h)

\* C9: for a face f of size s and two distinct half-edges a, b of its
\* boundary, e = splitFace(a, b) followed by joinFaces(e) gives as many
\* faces as before, one face of size s with the half-edges f had (its
\* identifier may differ), and the other faces with size and half-edges
\* unchanged.
C9_SplitFaceJoinFacesRoundTrip ==
    (m_cpGraph # nullptr /\ Running /\ RoomForEdge /\ RoomForFace) =>
        \A f \in Range(faces) : isFace(St, f) =>
            \A a, b \in members(St, f) : a # b => C9_Restored(St, a, b)

\* joinFaces has taken out the edge that the splitFace before it had put
\* into a face of at least three half-edges, next to another face
C9_Witness ==
    /\ last.op = "joinFaces" /\ last.undo
    /\ Len(faces) >= 2
    /\ m_size[last.ret] >= 3

\* e2 = split(e) in the state s and then unsplit(e, e2)
C10_Restored(s, e) ==
    LET s1 == split(s, e)
        e2 == NewEdgeId(s.g)
        t == unsplit(s1, e, e2)
    IN  /\ unsplitPre(s1.g, e, e2)
        /\ t.faces = s.faces
        /\ \A f \in Range(s.faces) : t.m_size[f] = s.m_size[f]
        /\ \A a \in Adjs(s.g) :
              a \in Adjs(t.g) /\ t.m_rightFace[a] = s.m_rightFace[a]
        /\ \A f \in Range(s.faces) :
              (/\ s.m_adjFirst[f] \in Adjs(s.g)
               /\ s.m_rightFace[s.m_adjFirst[f]] = f)
              => /\ t.m_adjFirst[f] \in Adjs(t.g)
                 /\ t.m_rightFace[t.m_adjFirst[f]] = f
                 /\ t.m_adjFirst[f] \in boundary(t, f)

\* C10: for an edge e, e2 = split(e) followed by unsplit(e, e2) gives every
\* face its size back, leaves the registry with the same faces and
\* identifiers, gives every half-edge that was there before the split its
\* right face back, and leaves the first entry of every face a half-edge of
\* the graph that lies on that face.
C10_SplitUnsplitRoundTrip ==
    (m_cpGraph # nullptr /\ Running /\ RoomForNode /\ RoomForEdge) =>
        \A e \in Edges(G) : C10_Restored(St, e)

\* unsplit has taken out the node that the split before it had put on an
\* edge between two faces
C10_Witness ==
    /\ last.op = "unsplit" /\ last.undo
    /\ Len(faces) >= 2
    /\ \A f \in Range(faces) : isFace(St, f)

\* the incremental structural operators
IncrementalOps ==
    {"split", "unsplit", "splitNode", "contract", "splitFace",
     "splitFaceAdjNode", "splitFaceNodeAdj", "joinFaces", "moveBridge",
     "removeDeg1", "reverseEdge"}

\* C11: an incremental structural operator leaves the external-face
\* designation on a face of the registry: when m_externalFace is a face of
\* the registry before the call, it is one after it (stated here for the
\* calls that start from and end in a consistent embedding).
C11_ExternalFaceStaysRegistered ==
    [][(/\ m_externalFace \in Range(faces)
        /\ last'.op \in IncrementalOps /\ last'.err = "none"
        /\ consistencyCheck(St) /\ consistencyCheck(St'))
       => m_externalFace' \in Range(faces')]_vars

RECURSIVE IsPowerOf2(_)
IsPowerOf2(n) == n = 1 \/ (n > 1 /\ n % 2 = 0 /\ IsPowerOf2(n \div 2))

Max(a, b) == IF a >= b THEN a ELSE b

\* the smallest power of two that is >= n, for n up to twice MaxFaceCount
smallestPowerOf2(n) ==
    Min({p \in 1..(4 * MaxFaceCount) : IsPowerOf2(p) /\ p >= n})

\* a full derivation has just returned
Derived == Returned("init") \/ Returned("ctor") \/ Returned("computeFaces")

C13_IdentifiersAreFresh ==
    /\ [](/\ \A i, j \in DOMAIN faces : faces[i] = faces[j] => i = j
          /\ \A f \in Range(faces) : 0 <= f /\ f < m_faceIdCount)
    /\ [][last'.op \in IncrementalOps /\ last'.err = "none"
            => /\ m_faceIdCount' >= m_faceIdCount
               /\ \A f \in Range(faces') \ Range(faces) :
                     /\ f >= m_faceIdCount /\ f < m_faceIdCount'
                     /\ \A h \in Range(faces) : f > h]_vars

\* joinFaces has removed face 1 of the two faces of a derivation and the
\* splitFace after it has allocated a face: it has identifier 2
C13_Witness ==
    /\ Returned("splitFace") /\ ops = 2
    /\ faces = <<0, 2>> /\ m_faceIdCount = 3

\* ------------------------------------------------------------------------
\* C14: every face array in m_regFaceArrays has the table size of the
\* embedding as the size it was last given, so it has a slot for every
\* identifier issued; a step that doubles the table size gives every
\* registered array the new size with enlargeTable, and computeFaces, init
\* and clear give it with reinit
\* ------------------------------------------------------------------------
C14_RegisteredArraysHaveTableSize ==
    /\ [](\A x \in Range(m_regFaceArrays) :
             /\ fab[x].size = m_faceArrayTableSize
             /\ \A f \in Range(faces) : f < fab[x].size
             /\ m_faceIdCount <= fab[x].size)
    /\ [][\A x \in Range(m_regFaceArrays') :
             /\ (last'.op = "splitFace"
                    /\ m_faceArrayTableSize' # m_faceArrayTableSize)
                 => fab'[x] = [size |-> 2 * m_faceArrayTableSize,
                               told |-> "enlargeTable"]
             /\ (last'.op = "splitFace"
                    /\ m_faceArrayTableSize' = m_faceArrayTableSize)
                 => fab'[x] = fab[x]
             /\ last'.op \in {"init", "computeFaces", "clear"}
                 => fab'[x] = [size |-> m_faceArrayTableSize',
                               told |-> "reinit"]]_vars

\* two arrays are registered when the table size doubles a second time
C14_Witness ==
    /\ Returned("splitFace")
    /\ Len(m_regFaceArrays) = 2
    /\ m_faceArrayTableSize = 64
    /\ m_faceIdCount = 33
    /\ \A x \in Range(m_regFaceArrays) : fab[x].told = "enlargeTable"

\* ------------------------------------------------------------------------
\* C15: of the threads that call registerArray, unregisterArray and
\* moveRegisterArray at most one is inside its list update, and it holds the
\* mutex; the list holds exactly the arrays registered and not unregistered
\* since, each once; moveRegisterArray puts the new array at the place of
\* the iterator and changes nothing else
\* ------------------------------------------------------------------------
Updating == {t \in Threads : thr[t].pc \in {"read", "write"}}

upTo(g, a, stop) ==
    LET cyc == faceCycle(g, a)
    IN  IF stop \in Range(cyc)
        THEN {cyc[i] : i \in 1..(IndexOf(cyc, stop) - 1)}
        ELSE Range(cyc)

\* what moveBridge(a, b) has made of the state s in the state t
C16_Moved(s, t, a, b) ==
    LET fOld == s.m_rightFace[a]
        fNew == s.m_rightFace[b]
        walked == upTo(s.g, twin(s.g, a), faceCycleSucc(s.g, a))
        k == Cardinality(walked)
    IN  /\ t.m_rightFace = [x \in AdjIds |->
              IF x \in walked THEN fNew ELSE s.m_rightFace[x]]
        /\ t.m_size[fOld] = s.m_size[fOld] - k
        /\ t.m_size[fNew] = s.m_size[fNew] + k
        /\ t.faces = s.faces
        /\ t.m_rightFace[t.m_adjFirst[fOld]] = fOld
        /\ consistencyCheck(t)

\* C16: moveBridge(adjBridge, adjBefore) on a bridge inside fOld and an entry
\* of another face fNew gives fNew exactly the half-edges walked from the twin
\* of adjBridge up to the face-cycle successor of adjBridge, k of them, takes
\* k from the size of fOld and adds k to the size of fNew, leaves the first
\* entry of fOld on a half-edge mapped to fOld, and leaves the embedding
\* consistent, also when the walk is empty (the twin's node has degree 1)
C16_MoveBridgeMovesTheWalk ==
    [][\A a, b \in AdjIds :
          (/\ last'.op = "moveBridge" /\ last'.err = "none"
           /\ a \in Adjs(G) /\ b \in Adjs(G)
           /\ m_rightFace[a] = m_rightFace[twin(G, a)]
           /\ m_rightFace[a] # m_rightFace[b]
           /\ consistencyCheck(St)
           /\ MoveBridge(a, b))
          => C16_Moved(St, St', a, b)]_vars

\* ------------------------------------------------------------------------
\* what contract(e) has made of the state s in the state t
\* ------------------------------------------------------------------------
C17_Contracted(s, t, e) ==
    LET adjSrc == s.g.adjSrc[e]
        adjTgt == s.g.adjTgt[e]
        fSrc == s.m_rightFace[adjSrc]
        fTgt == s.m_rightFace[adjTgt]
    IN  /\ t.faces = s.faces
        /\ IF fSrc = fTgt
           THEN t.m_size[fSrc] = s.m_size[fSrc] - 2
           ELSE /\ t.m_size[fSrc] = s.m_size[fSrc] - 1
                /\ t.m_size[fTgt] = s.m_size[fTgt] - 1
        /\ \A f \in Range(t.faces) : t.m_adjFirst[f] \notin {adjSrc, adjTgt}

\* C17: contract(e) leaves the number of faces unchanged, takes one from the
\* size of the right face of each half-edge of e (two when it is one face),
\* and leaves no face with a half-edge of e as first entry, also when the
\* half-edges of e follow each other on the face cycle and when they are the
\* whole face
C17_ContractKeepsFaces ==
    [][\A e \in EdgeIds :
          (/\ last'.op = "contract" /\ last'.err = "none"
           /\ e \in Edges(G)
           /\ consistencyCheck(St)
           /\ Contract(e))
          => C17_Contracted(St, St', e)]_vars

\* ------------------------------------------------------------------------
\* what removeDeg1(v) has made of the state s in the state t
\* ------------------------------------------------------------------------
C18_Removed(s, t, v) ==
    LET adj == firstAdj(s.g, v)
        f == s.m_rightFace[adj]
    IN  /\ t.faces = s.faces
        /\ t.m_size[f] = s.m_size[f] - 2
        /\ othersUnchanged(s, t, {f})
        /\ t.m_adjFirst[f] \notin {adj, twin(s.g, adj)}

\* C18: removeDeg1(v) on a node v of degree 1 leaves the number of faces
\* unchanged, takes two from the size of the face of v's edge, leaves every
\* other face as it was, and leaves that face with a first entry that is
\* neither of the two removed half-edges, also when the other endpoint of
\* the edge has degree 1
C18_RemoveDeg1KeepsFaces ==
    [][\A v \in NodeIds :
          (/\ last'.op = "removeDeg1" /\ last'.err = "none"
           /\ v \in G.nodes
           /\ consistencyCheck(St)
           /\ RemoveDeg1(v))
          => C18_Removed(St, St', v)]_vars

\* ------------------------------------------------------------------------
\* what splitFace(adj, v) or splitFace(v, adj) has made of the state s, for a
\* node v without edges, when it returned the edge e in the state t
\* ------------------------------------------------------------------------
C19_Inserted(s, t, adj, e) ==
    LET f == s.m_rightFace[adj]
        new == {t.g.adjSrc[e], t.g.adjTgt[e]}
    IN  /\ t.faces = s.faces
        /\ t.m_faceIdCount = s.m_faceIdCount
        /\ t.m_size[f] = s.m_size[f] + 2
        /\ \A a \in new : t.m_rightFace[a] = f
        /\ t.m_adjFirst[f] = adj
        /\ members(t, f) = members(s, f) \cup new
        /\ isFace(t, f)
        /\ othersUnchanged(s, t, {f})
        /\ consistencyCheck(s) => consistencyCheck(t)

\* C19: splitFace(adj, v) and splitFace(v, adj) for a node v of degree 0 and
\* an entry adj of a face f create no face and leave the identifier counter,
\* add two to the size of f, map both half-edges of the new edge to f, make
\* adj the first entry of f, and leave the right-face map in agreement with
\* the face cycles
C19_SplitFaceIntoIsolatedNode ==
    [][\A adj \in AdjIds, v \in NodeIds :
          (/\ last'.op \in {"splitFaceAdjNode", "splitFaceNodeAdj"}
           /\ last'.err = "none"
           /\ adj \in Adjs(G) /\ v \in G.nodes
           /\ degree(G, v) = 0
           /\ isFace(St, m_rightFace[adj])
           /\ \/ last'.op = "splitFaceAdjNode" /\ SplitFaceAdjNode(adj, v)
              \/ last'.op = "splitFaceNodeAdj" /\ SplitFaceNodeAdj(v, adj))
          => C19_Inserted(St, St', adj, last'.ret)]_vars

\* splitFace(v, adj) has put an edge from a node that had no edge into a
\* face of four or more half-edges: both its half-edges are on that face
C19_Witness ==
    /\ Returned("splitFaceNodeAdj")
    /\ ops = 2
    /\ degree(G, source(G, last.ret)) = 1
    /\ m_rightFace[G.adjSrc[last.ret]] = m_rightFace[G.adjTgt[last.ret]]
    /\ m_size[m_rightFace[G.adjSrc[last.ret]]] >= 5
    /\ consistencyCheck(St)

\* ------------------------------------------------------------------------
\* C20: the edge that splitFace(adjSrc, v) returns goes from the node of
\* adjSrc to v, and the edge that splitFace(v, adjTgt) returns goes from v to
\* the node of adjTgt, whether v has degree 0 or has edges already
\* ------------------------------------------------------------------------
C20_NodeVariantsFixDirection ==
    [][\A adj \in AdjIds, v \in NodeIds :
          (/\ last'.op \in {"splitFaceAdjNode", "splitFaceNodeAdj"}
           /\ last'.err = "none"
           /\ adj \in Adjs(G) /\ v \in G.nodes)
          => /\ (last'.op = "splitFaceAdjNode" /\ SplitFaceAdjNode(adj, v))
                => /\ source(G', last'.ret) = theNode(G, adj)
                   /\ target(G', last'.ret) = v
             /\ (last'.op = "splitFaceNodeAdj" /\ SplitFaceNodeAdj(v, adj))
                => /\ source(G', last'.ret) = v
                   /\ target(G', last'.ret) = theNode(G, adj)]_vars

\* ------------------------------------------------------------------------
\* C21: a call of splitFace(adjSrc, adjTgt), directly or through one of the
\* node variants, or of init(G) that throws the precondition error leaves
\* the graph, the registry, the sizes and first entries of the faces, the
\* right-face map, the identifier counter, the table size and the external
\* face as they were before the call
\* ------------------------------------------------------------------------
PreconditionErrors == {"notEmbedding", "differentFaces", "sameAdjEntry"}

C21_PreconditionErrorChangesNothing ==
    [][(/\ last'.op \in {"splitFace", "splitFaceAdjNode", "splitFaceNodeAdj",
                         "init"}
        /\ last'.err \in PreconditionErrors)
       => /\ G' = G
          /\ faces' = faces
          /\ m_size' = m_size
          /\ m_adjFirst' = m_adjFirst
          /\ m_rightFace' = m_rightFace
          /\ m_faceIdCount' = m_faceIdCount
          /\ m_faceArrayTableSize' = m_faceArrayTableSize
          /\ m_externalFace' = m_externalFace
          /\ St' = St]_vars

\* splitFace has refused two entries of different faces in an embedding
\* whose external face had been set by the call before
C21_Witness ==
    /\ last.op = "splitFace" /\ last.err = "differentFaces"
    /\ ops = 1
    /\ m_externalFace \in Range(faces)
    /\ Len(faces) >= 2
====
